---------------------------- MODULE Spec2Model ----------------------------
(* A model of src/endpoint_monitor.py: the HTTP endpoint monitor.          *)
(*                                                                         *)
(* One asyncio event loop runs main(), which awaits MonitoringService.run; *)
(* every cycle of run fans one check_endpoint task out per endpoint with   *)
(* asyncio.gather, records the returned results per domain, prints the     *)
(* availability of every domain and sleeps.  stop() clears the running     *)
(* flag; SIGINT reaches the program through asyncio.run.                   *)
(*                                                                         *)
(* Times are held in thousandths of a millisecond, so 499.999 ms is 499999 *)
(* and the 500 ms threshold of is_up is 500 * 1000.                        *)
EXTENDS Integers, Sequences, FiniteSets, TLC

-----------------------------------------------------------------------------
(* Bounds of the model.                                                    *)

\* Cycles a behaviour may start.
MaxCycles == 4

\* Results the history may hold in total.
MaxResults == 4

-----------------------------------------------------------------------------
(* EndpointConfig and its URLs.                                            *)

\* A URL, by the parts urlparse and the HTTP client read: the scheme, the
\* authority's host and port as written ("" for no port), the path, and
\* whether the authority's square brackets are balanced.
MkUrl(scheme, host, port, path, brackets) ==
    [scheme |-> scheme, host |-> host, port |-> port, path |-> path,
     brackets |-> brackets]

MkEndpoint(name, url) == [name |-> name, url |-> url]

\* https://a.example/
EpIndex == MkEndpoint("index", MkUrl("https", "a.example", "", "/", "none"))
\* https://a.example/careers
EpCareers ==
    MkEndpoint("careers", MkUrl("https", "a.example", "", "/careers", "none"))
\* http://b.example:8080/health
EpHealth ==
    MkEndpoint("health", MkUrl("http", "b.example", "8080", "/health", "none"))
\* https://a.example:443/ : the default port of https, written out
EpIndex443 ==
    MkEndpoint("index443", MkUrl("https", "a.example", "443", "/", "none"))
\* http://[::1/status : an IPv6 literal whose bracket is never closed
EpBracket ==
    MkEndpoint("v6", MkUrl("http", "[::1", "", "/status", "unbalanced"))
\* "not a url" : no scheme and no authority
EpNoUrl == MkEndpoint("typo", MkUrl("", "", "", "not a url", "none"))

\* The endpoint lists parse_config may hand to the service.
Configs ==
    { << >>,
      << EpIndex >>,
      << EpIndex, EpCareers >>,
      << EpIndex, EpHealth >>,
      << EpIndex, EpIndex443 >>,
      << EpNoUrl, EpHealth >>,
      << EpIndex, EpBracket >> }

\* urlparse raises ValueError("Invalid IPv6 URL") when the authority holds
\* one square bracket without the other.
urlparse_raises(url) == url.brackets = "unbalanced"

\* urlparse(url).netloc: the authority as written, host and port.
netloc(url) == << url.host, url.port >>

\* urlparse(url).hostname in place of .netloc: the port is dropped.
get_domain_hostname(endpoint) == << endpoint.url.host, "" >>

\* EndpointConfig.get_domain, where urlparse does not raise.
get_domain(endpoint) == netloc(endpoint.url)

\* Whether the HTTP client can issue a request for the URL at all: it needs
\* an http(s) scheme and a host it can parse.
Requestable(url) ==
    /\ url.scheme \in {"http", "https"}
    /\ url.host # ""
    /\ ~urlparse_raises(url)

-----------------------------------------------------------------------------
(* HealthCheckResult.                                                      *)

\* float('inf'): larger than every finite response time.
INF == 1000000000

\* The timestamp field's default, datetime.now() evaluated once, when the
\* class is defined.
ClassDefinitionTime == 0

HealthCheckResult(endpoint_name, domain, response_time_ms, status_code) ==
    [endpoint_name |-> endpoint_name, domain |-> domain,
     response_time_ms |-> response_time_ms, status_code |-> status_code,
     timestamp |-> ClassDefinitionTime]

is_up_inclusive(r) ==
    /\ 200 <= r.status_code
    /\ r.status_code < 300
    /\ r.response_time_ms <= 500 * 1000

\* HealthCheckResult.is_up
is_up(r) ==
    /\ 200 <= r.status_code
    /\ r.status_code < 300
    /\ r.response_time_ms < 500 * 1000

-----------------------------------------------------------------------------
(* What the network can do to one request.                                 *)

\* Status codes of HTTP responses.
HttpStatuses == {200, 299, 300}

\* Elapsed times of answered requests, in thousandths of a millisecond.
ElapsedTimes == {499999, 500000}

\* Exceptions a request can end with (all subclasses of Exception).
RequestFailures == {"ClientConnectorError", "TimeoutError"}

Responses ==
    [kind : {"response"}, status : HttpStatuses, elapsed : ElapsedTimes,
     error : {""}]

Failures ==
    [kind : {"error"}, status : {0}, elapsed : {0}, error : RequestFailures]

\* The URL is refused before anything is sent.
InvalidUrlFailure ==
    [kind |-> "error", status |-> 0, elapsed |-> 0, error |-> "InvalidURL"]

NetOutcomes(url) ==
    IF Requestable(url) THEN Responses \cup Failures ELSE {InvalidUrlFailure}

-----------------------------------------------------------------------------
(* HealthChecker.check_endpoint, as the outcome of one task.               *)

DownResultZeroTime(endpoint) ==
    HealthCheckResult(endpoint.name, get_domain(endpoint), 0, 0)

\* The except branch's result.
DownResult(endpoint) ==
    HealthCheckResult(endpoint.name, get_domain(endpoint), INF, 0)

\* The try branch's result.
UpResult(endpoint, net) ==
    HealthCheckResult(endpoint.name, get_domain(endpoint), net.elapsed,
                      net.status)

InFlight == [state |-> "inflight", result |-> << >>, via |-> ""]

Returned(r, via) == [state |-> "returned", result |-> << r >>, via |-> via]

Raised(exception) == [state |-> "raised", result |-> << >>, via |-> exception]

Cancelled == [state |-> "cancelled", result |-> << >>, via |-> "CancelledError"]

\* check_endpoint on a request that ends as `net`: both branches build the
\* result with endpoint.get_domain(), so a URL urlparse rejects raises
\* ValueError out of the except branch.
check_endpoint(endpoint, net) ==
    IF urlparse_raises(endpoint.url)
    THEN Raised("ValueError")
    ELSE IF net.kind = "response"
         THEN Returned(UpResult(endpoint, net), "")
         ELSE Returned(DownResult(endpoint), net.error)

-----------------------------------------------------------------------------
(* HealthChecker: the history and the availability statistics.             *)

\* A history made with an empty bucket per known domain.
PresetBuckets == [d \in { << "a.example", "" >>, << "b.example", "8080" >> } |-> << >>]

\* defaultdict(list) as constructed: no key at all.
NoBuckets == [d \in {} |-> << >>]

\* self.results[result.domain] = [result]: the bucket is overwritten.
AppendResultReplace(res, r) ==
    [d \in DOMAIN res \cup {r.domain} |->
        IF d = r.domain THEN << r >> ELSE res[d]]

\* self.results[result.domain].insert(0, result): the newest result first.
AppendResultFront(res, r) ==
    IF r.domain \in DOMAIN res
    THEN [res EXCEPT ![r.domain] = << r >> \o @]
    ELSE [d \in DOMAIN res \cup {r.domain} |->
            IF d = r.domain THEN << r >> ELSE res[d]]

\* self.results[result.domain].append(result): the defaultdict makes the
\* bucket on its first use.
AppendResult(res, r) ==
    IF r.domain \in DOMAIN res
    THEN [res EXCEPT ![r.domain] = Append(@, r)]
    ELSE [d \in DOMAIN res \cup {r.domain} |->
            IF d = r.domain THEN << r >> ELSE res[d]]

RECURSIVE RecordAll(_, _)
\* The loop `for result in results` of check_all_endpoints, in gather's
\* order, which is the order of the endpoint list.
RecordAll(res, rs) ==
    IF rs = << >> THEN res
    ELSE RecordAll(AppendResult(res, Head(rs)), Tail(rs))

\* Python's round() of the quotient num / den (den > 0): to the nearest
\* integer, an exact half to the even neighbour.
round(num, den) ==
    LET q == num \div den
        r == num % den
    IN  IF 2 * r < den THEN q
        ELSE IF 2 * r > den THEN q + 1
        ELSE IF q % 2 = 0 THEN q ELSE q + 1

\* sum(1 for check in checks if check.is_up)
up_count(checks) == Cardinality({i \in 1..Len(checks) : is_up(checks[i])})

\* The body of the loop of get_availability_stats for one bucket.
availability(checks) ==
    IF Len(checks) > 0 THEN round(up_count(checks) * 100, Len(checks)) ELSE 0

get_availability_stats_latest(res) ==
    [d \in DOMAIN res |-> availability(<< res[d][Len(res[d])] >>)]

\* HealthChecker.get_availability_stats
get_availability_stats(res) == [d \in DOMAIN res |-> availability(res[d])]

-----------------------------------------------------------------------------
(* The state of the program.                                               *)

VARIABLES
    endpoints,       \* MonitoringService.endpoints, HealthChecker.endpoints
    results,         \* HealthChecker.results: domain -> list of results
    running,         \* MonitoringService.running
    pc,              \* where main() is: "idle" before run() is awaited,
                     \* "gather" awaiting the fan-out, "sleep" in
                     \* asyncio.sleep, "exited" when run() has returned,
                     \* "interrupted" when main caught KeyboardInterrupt,
                     \* "crashed" when another exception left main
    exc,             \* the exception that ended main, "" for none
    tasks,           \* the check_endpoint tasks of the current cycle
    cycle,           \* cycles started
    completed,       \* cycles recorded and reported
    reported,        \* the statistics last printed
    stop_requested   \* whether stop() has been called

vars ==
    << endpoints, results, running, pc, exc, tasks, cycle, completed,
       reported, stop_requested >>

\* MonitoringService.__init__ and HealthChecker.__init__
Init ==
    /\ endpoints \in Configs
    /\ results = NoBuckets
    /\ running = FALSE
    /\ pc = "idle"
    /\ exc = ""
    /\ tasks = << >>
    /\ cycle = 0
    /\ completed = 0
    /\ reported = [d \in {} |-> 0]
    /\ stop_requested = FALSE

\* The model's cap on the cycles and on the history.
CanDispatch ==
    /\ cycle < MaxCycles
    /\ (completed + 1) * Len(endpoints) <= MaxResults

\* run_check_cycle up to its first suspension: check_all_endpoints makes one
\* task per endpoint and awaits gather.  With no endpoint, gather() is done
\* at once and the cycle runs through to the sleep.
Dispatch ==
    /\ cycle' = cycle + 1
    /\ tasks' = [i \in 1..Len(endpoints) |-> InFlight]
    /\ IF endpoints = << >>
       THEN /\ reported' = get_availability_stats(results)
            /\ completed' = completed + 1
            /\ pc' = "sleep"
       ELSE /\ pc' = "gather"
            /\ UNCHANGED << reported, completed >>
    /\ UNCHANGED results

\* MonitoringService.run is awaited: it sets the flag and enters the loop.
Run ==
    /\ pc \in {"idle", "exited"}
    /\ CanDispatch
    /\ running' = TRUE
    /\ Dispatch
    /\ UNCHANGED << endpoints, exc, stop_requested >>

\* One check_endpoint task ends.  A task whose URL the client refuses ends
\* in its first step, before any request of the cycle can be answered.
ProbeResolve(i) ==
    /\ pc = "gather"
    /\ tasks[i].state = "inflight"
    /\ \/ ~Requestable(endpoints[i].url)
       \/ \A j \in DOMAIN tasks :
            Requestable(endpoints[j].url) \/ tasks[j].state # "inflight"
    /\ \E net \in NetOutcomes(endpoints[i].url) :
         tasks' = [tasks EXCEPT ![i] = check_endpoint(endpoints[i], net)]
    /\ UNCHANGED << endpoints, results, running, pc, exc, cycle, completed,
                    reported, stop_requested >>

\* The results gather hands back, in the order of the endpoint list.
GatheredResults == [i \in DOMAIN tasks |-> tasks[i].result[1]]

IsReturned(t) == t.state = "returned"

\* The results are recorded as soon as one task has returned, the others
\* still being in flight.
GatherCompleteEager ==
    /\ pc = "gather"
    /\ \E i \in DOMAIN tasks : tasks[i].state = "returned"
    /\ LET done == SelectSeq(tasks, IsReturned)
       IN  results' = RecordAll(results, [k \in 1..Len(done) |-> done[k].result[1]])
    /\ reported' = get_availability_stats(results')
    /\ completed' = completed + 1
    /\ pc' = "sleep"
    /\ UNCHANGED << endpoints, running, exc, tasks, cycle, stop_requested >>

\* The statistics are computed and printed before the results are recorded.
GatherCompleteReportFirst ==
    /\ pc = "gather"
    /\ \A i \in DOMAIN tasks : tasks[i].state = "returned"
    /\ reported' = get_availability_stats(results)
    /\ results' = RecordAll(results, GatheredResults)
    /\ completed' = completed + 1
    /\ pc' = "sleep"
    /\ UNCHANGED << endpoints, running, exc, tasks, cycle, stop_requested >>

\* The loop goes from the report of one cycle straight into the next, with
\* no sleep between them.
GatherCompleteNoSleep ==
    /\ pc = "gather"
    /\ \A i \in DOMAIN tasks : tasks[i].state = "returned"
    /\ CanDispatch
    /\ (completed + 2) * Len(endpoints) <= MaxResults
    /\ results' = RecordAll(results, GatheredResults)
    /\ reported' = get_availability_stats(results')
    /\ completed' = completed + 1
    /\ cycle' = cycle + 1
    /\ tasks' = [i \in 1..Len(endpoints) |-> InFlight]
    /\ pc' = "gather"
    /\ UNCHANGED << endpoints, running, exc, stop_requested >>

\* gather returns: the rest of check_all_endpoints and of run_check_cycle
\* runs without suspending, into asyncio.sleep.
GatherComplete ==
    /\ pc = "gather"
    /\ \A i \in DOMAIN tasks : tasks[i].state = "returned"
    /\ results' = RecordAll(results, GatheredResults)
    /\ reported' = get_availability_stats(results')
    /\ completed' = completed + 1
    /\ pc' = "sleep"
    /\ UNCHANGED << endpoints, running, exc, tasks, cycle, stop_requested >>

\* The tasks still running when the event loop shuts down are cancelled.
CancelInFlight(ts) ==
    [i \in DOMAIN ts |-> IF ts[i].state = "inflight" THEN Cancelled ELSE ts[i]]

\* gather (return_exceptions=False) raises the first exception of a task
\* into check_all_endpoints; nothing up to asyncio.run catches it.
GatherRaise ==
    /\ pc = "gather"
    /\ \E i \in DOMAIN tasks :
         /\ tasks[i].state = "raised"
         /\ exc' = tasks[i].via
    /\ pc' = "crashed"
    /\ tasks' = CancelInFlight(tasks)
    /\ UNCHANGED << endpoints, results, running, cycle, completed, reported,
                    stop_requested >>

WakeIgnoringFlag ==
    /\ pc = "sleep"
    /\ CanDispatch
    /\ Dispatch
    /\ UNCHANGED << endpoints, running, exc, stop_requested >>

\* asyncio.sleep returns and `while self.running` is evaluated.
Wake ==
    /\ pc = "sleep"
    /\ IF running
       THEN /\ CanDispatch
            /\ Dispatch
       ELSE /\ pc' = "exited"
            /\ UNCHANGED << results, tasks, cycle, completed, reported >>
    /\ UNCHANGED << endpoints, running, exc, stop_requested >>

\* MonitoringService.stop, called by any party while the process lives.
Stop ==
    /\ pc \in {"idle", "gather", "sleep", "exited"}
    /\ running' = FALSE
    /\ stop_requested' = TRUE
    /\ UNCHANGED << endpoints, results, pc, exc, tasks, cycle, completed,
                    reported >>

\* SIGINT while main is suspended: asyncio.run cancels the main task, the
\* gather and with it every task in flight; CancelledError is no
\* KeyboardInterrupt, so main's handler does not run.
SigintCancels ==
    /\ pc \in {"gather", "sleep"}
    /\ pc' = "crashed"
    /\ exc' = "CancelledError"
    /\ tasks' = CancelInFlight(tasks)
    /\ UNCHANGED << endpoints, results, running, cycle, completed, reported,
                    stop_requested >>

\* SIGINT raised as KeyboardInterrupt inside main's own code, as it resumes
\* from the sleep or from a finished gather: main's handler calls stop().
SigintCaught ==
    /\ \/ pc = "sleep"
       \/ /\ pc = "gather"
          /\ \A i \in DOMAIN tasks : tasks[i].state = "returned"
    /\ pc' = "interrupted"
    /\ exc' = "KeyboardInterrupt"
    /\ running' = FALSE
    /\ stop_requested' = TRUE
    /\ UNCHANGED << endpoints, results, tasks, cycle, completed, reported >>

Next ==
    \/ Run
    \/ \E i \in DOMAIN tasks : ProbeResolve(i)
    \/ GatherComplete
    \/ GatherRaise
    \/ Wake
    \/ Stop
    \/ SigintCancels
    \/ SigintCaught

Spec == Init /\ [][Next]_vars

-----------------------------------------------------------------------------
(* What the properties below speak about.                                  *)

\* Every result stored in the history.
HistoryResults ==
    UNION { { results[d][i] : i \in 1..Len(results[d]) } : d \in DOMAIN results }

\* Every result a task of the current cycle has returned.
TaskResults ==
    { tasks[i].result[1] :
        i \in { j \in DOMAIN tasks : tasks[j].state = "returned" } }

AllResults == HistoryResults \cup TaskResults

\* The UP/DOWN classifications of a bucket, oldest first.
UpPattern(checks) == [i \in 1..Len(checks) |-> is_up(checks[i])]

\* v is an integer nearest to 100 * up / total.
NearestPercent(v, up, total) ==
    /\ 2 * (v * total - 100 * up) <= total
    /\ 2 * (100 * up - v * total) <= total

\* SIGINT ended main.
Interrupted == exc \in {"CancelledError", "KeyboardInterrupt"}

-----------------------------------------------------------------------------
(* C1: check_endpoint never raises: whatever the endpoint's URL and however *)
(* the request fails, the task returns a result, and the result of a failed *)
(* request has status_code 0 and response_time_ms +infinity.               *)
C1_ProbeNeverRaises ==
    \A i \in DOMAIN tasks :
        /\ tasks[i].state # "raised"
        /\ (tasks[i].state = "returned" /\ tasks[i].via # "") =>
              /\ tasks[i].result[1].status_code = 0
              /\ tasks[i].result[1].response_time_ms = INF

(* C2: every result, returned by a task or stored in the history, has      *)
(* status_code 0 exactly when its response_time_ms is +infinity.           *)
C2_SentinelsAgree ==
    \A r \in AllResults : (r.status_code = 0) <=> (r.response_time_ms = INF)

\* A failed and an answered request of one domain are both in the history.
C2_Witness ==
    \E d \in DOMAIN results :
        \E i, j \in 1..Len(results[d]) :
            /\ results[d][i].status_code = 0
            /\ results[d][i].response_time_ms = INF
            /\ results[d][j].status_code # 0
            /\ results[d][j].response_time_ms < INF

(* C3: a result is UP exactly when 200 <= status_code < 300 and            *)
(* response_time_ms < 500; so 200 at 499.999 ms is UP, 200 at 500 ms is    *)
(* DOWN, 299 in time is UP, 300 is DOWN and the failure sentinel is DOWN.  *)
C3_IsUpRule ==
    \A r \in AllResults :
        /\ is_up(r) <=> ( /\ r.status_code \in 200..299
                          /\ r.response_time_ms < 500000 )
        /\ (r.status_code = 200 /\ r.response_time_ms = 499999) => is_up(r)
        /\ (r.status_code = 200 /\ r.response_time_ms = 500000) => ~is_up(r)
        /\ (r.status_code = 299 /\ r.response_time_ms = 499999) => is_up(r)
        /\ r.status_code = 300 => ~is_up(r)
        /\ (r.status_code = 0 /\ r.response_time_ms = INF) => ~is_up(r)

\* The history holds the boundary cases: 200 at 499.999 ms, 200 at 500 ms,
\* 299, 300 and the failure sentinel.
C3_Witness ==
    /\ \E r \in HistoryResults : r.status_code = 200 /\ r.response_time_ms = 499999
    /\ \E r \in HistoryResults : r.status_code = 200 /\ r.response_time_ms = 500000
    /\ \E r \in HistoryResults : r.status_code = 299 /\ r.response_time_ms = 499999
    /\ \E r \in HistoryResults : r.status_code = 300 \/ r.status_code = 0

(* C4: after any completed cycles the statistics hold, for every domain    *)
(* with a recorded result, 100 * up_count / total_count rounded to an      *)
(* integer, the counts taken over the whole history of the domain: the     *)
(* history UP, DOWN, UP gives 67 and one more UP gives 75.                 *)
C4_CumulativeAvailability ==
    /\ DOMAIN reported = DOMAIN results
    /\ DOMAIN get_availability_stats(results) = DOMAIN results
    /\ \A d \in DOMAIN results :
        /\ NearestPercent(reported[d], up_count(results[d]), Len(results[d]))
        /\ NearestPercent(get_availability_stats(results)[d],
                          up_count(results[d]), Len(results[d]))
        /\ UpPattern(results[d]) = << TRUE, FALSE, TRUE >> => reported[d] = 67
        /\ UpPattern(results[d]) = << TRUE, FALSE, TRUE, TRUE >> =>
              reported[d] = 75

\* A domain whose history is UP, DOWN, UP, UP has been reported at 75.
C4_Witness ==
    \E d \in DOMAIN results :
        /\ UpPattern(results[d]) = << TRUE, FALSE, TRUE, TRUE >>
        /\ reported[d] = 75
        /\ completed >= 2

(* C5: the availability mapping has an entry only for a domain with at     *)
(* least one recorded result: no bucket of the history is ever empty, so   *)
(* nothing is divided by zero and no unchecked domain is shown at 0%; with *)
(* an empty endpoint list the mapping is empty after any number of cycles. *)
C5_OnlyCheckedDomains ==
    /\ \A d \in DOMAIN results : Len(results[d]) > 0
    /\ \A d \in DOMAIN reported : d \in DOMAIN results /\ Len(results[d]) > 0
    /\ \A d \in DOMAIN get_availability_stats(results) : Len(results[d]) > 0
    /\ endpoints = << >> =>
          /\ DOMAIN reported = {}
          /\ DOMAIN get_availability_stats(results) = {}

\* Two cycles over an empty endpoint list have been reported.
C5_Witness ==
    /\ endpoints = << >>
    /\ completed >= 2
    /\ reported = [d \in {} |-> 0]

C7_SigintBecomesStop ==
    Interrupted =>
        /\ pc = "interrupted"
        /\ ~running
        /\ stop_requested
        /\ \A i \in DOMAIN tasks : tasks[i].state # "cancelled"

(* C8: Stopped is terminal: once stop() has been called and the flag is    *)
(* down, no call of run() or stop() brings the loop back to Running, so no *)
(* stop request is lost.                                                   *)
C8_StoppedIsTerminal == [][(stop_requested /\ ~running) => ~running']_vars

(* C9: a failing probe does not abort its cycle: however a probe of the    *)
(* cycle failed, main is not brought down by it, and when the cycle is     *)
(* over every probe of it has its result in the history.                   *)
C9_FailureDoesNotAbortCycle ==
    ( /\ \E i \in DOMAIN tasks :
            tasks[i].state = "raised" \/ tasks[i].via # ""
      /\ ~Interrupted )
    => ( /\ pc # "crashed"
         /\ pc \in {"sleep", "exited"} =>
               \A i \in DOMAIN tasks :
                   /\ tasks[i].state = "returned"
                   /\ tasks[i].result[1] \in HistoryResults )

(* C10: every dispatched probe resolves and the fan-out of every started   *)
(* cycle completes: unless SIGINT ended main, once main has left the       *)
(* fan-out every cycle started is recorded and every probe of it returned  *)
(* a result, a timed-out one the DOWN result with status_code 0.           *)
C10_EveryProbeResolves ==
    /\ \A i \in DOMAIN tasks :
          tasks[i].via = "TimeoutError" =>
              /\ tasks[i].state = "returned"
              /\ tasks[i].result[1].status_code = 0
    /\ (pc # "gather" /\ ~Interrupted) =>
          /\ completed = cycle
          /\ \A i \in DOMAIN tasks : tasks[i].state = "returned"

-----------------------------------------------------------------------------
\* The port a request to the URL goes to: the one written, else the
\* scheme's default.
EffectivePort(url) ==
    IF url.port # "" THEN url.port
    ELSE IF url.scheme = "https" THEN "443"
    ELSE IF url.scheme = "http" THEN "80"
    ELSE ""

\* The endpoints whose URL has the authority d as written.
EndpointsOf(d) == { i \in DOMAIN endpoints : netloc(endpoints[i].url) = d }

\* The names of the endpoints with a result in the bucket.
NamesIn(checks) == { checks[k].endpoint_name : k \in 1..Len(checks) }

TotalLen(res) ==
    Cardinality(UNION { { << d, k >> : k \in 1..Len(res[d]) } : d \in DOMAIN res })

\* The length of a bucket, 0 for a domain without one.
LenOf(res, d) == IF d \in DOMAIN res THEN Len(res[d]) ELSE 0

\* The authorities of the configured endpoints.
ConfiguredDomains == { netloc(endpoints[i].url) : i \in DOMAIN endpoints }

(* C12, as claimed: a cycle appends to the history once per domain, so     *)
(* every bucket has grown once per recorded cycle.                         *)
C12_OneAppendPerDomain ==
    \A d \in DOMAIN results : Len(results[d]) = completed

(* C12, amended: a cycle dispatches exactly one probe per endpoint; the    *)
(* step that records it has one returned result per endpoint and appends   *)
(* each of them, N appends in all: the buckets of the D configured domains *)
(* grow, each by the number of its endpoints, and nothing else changes.    *)
C12_OneAppendPerResult ==
    [][ /\ cycle' # cycle =>
              /\ cycle' = cycle + 1
              /\ Len(tasks') = Len(endpoints)
              /\ completed' = completed => \A i \in DOMAIN tasks' : tasks'[i] = InFlight
        /\ completed' # completed =>
              /\ completed' = completed + 1
              /\ Len(tasks') = Len(endpoints)
              /\ \A i \in DOMAIN tasks' :
                    /\ tasks'[i].state = "returned"
                    /\ tasks'[i].result[1].endpoint_name = endpoints[i].name
              /\ TotalLen(results') = TotalLen(results) + Len(endpoints)
              /\ DOMAIN results' = ConfiguredDomains
              /\ \A d \in ConfiguredDomains :
                    LenOf(results', d) =
                        LenOf(results, d) + Cardinality(EndpointsOf(d))
      ]_vars

\* One cycle over two endpoints of one domain is recorded: two appends to
\* one bucket.
C12_Witness ==
    /\ completed = 1
    /\ Len(endpoints) = 2
    /\ Cardinality(DOMAIN results) = 1
    /\ \A d \in DOMAIN results : Len(results[d]) = 2

(* C13: the mapping is handed out exactly once per cycle, in the step that *)
(* has recorded the cycle's results, so it covers them; every value of it  *)
(* is an integer from 0 to 100.                                            *)
C13_ReportOncePerCycle ==
    [][ /\ (reported' # reported \/ completed' # completed) =>
              /\ completed' = completed + 1
              /\ cycle' = completed'
              /\ TotalLen(results') = TotalLen(results) + Len(endpoints)
              /\ DOMAIN reported' = DOMAIN results'
              /\ \A d \in DOMAIN results' :
                    NearestPercent(reported'[d], up_count(results'[d]),
                                   Len(results'[d]))
        /\ completed' <= cycle'
        /\ cycle' - completed' <= 1
        /\ \A d \in DOMAIN reported' : reported'[d] \in 0..100
      ]_vars

\* The second report of a domain with one UP and one DOWN result: 50.
C13_Witness ==
    /\ completed = 2
    /\ cycle = 2
    /\ pc = "sleep"
    /\ \E d \in DOMAIN reported :
        /\ Len(results[d]) = 2
        /\ up_count(results[d]) = 1
        /\ reported[d] = 50

-----------------------------------------------------------------------------
(* get_availability_stats on its own: the rounding of longer histories.    *)

\* The longest history of the rounding specification.
MaxChecks == 8

\* An answered request in time, and a failed one, of the endpoint index.
UpCheck ==
    UpResult(EpIndex, [kind |-> "response", status |-> 200,
                       elapsed |-> 499999, error |-> ""])

DownCheck == DownResult(EpIndex)

\* The histories of one domain of 1 to MaxChecks results, each UP or DOWN.
Histories == UNION { [1..n -> {UpCheck, DownCheck}] : n \in 1..MaxChecks }

\* run_check_cycle after check_all_endpoints has appended the results of
\* the latest of Len(h) cycles over the endpoint index.
InitRounding ==
    /\ endpoints = << EpIndex >>
    /\ \E h \in Histories :
         /\ results = [d \in {get_domain(EpIndex)} |-> h]
         /\ cycle = Len(h)
         /\ completed = Len(h) - 1
    /\ running = TRUE
    /\ pc = "gather"
    /\ exc = ""
    /\ tasks = << >>
    /\ reported = [d \in {} |-> 0]
    /\ stop_requested = FALSE

\* stats = self.health_checker.get_availability_stats() and the printing.
ComputeStats ==
    /\ pc = "gather"
    /\ tasks = << >>
    /\ reported' = get_availability_stats(results)
    /\ completed' = completed + 1
    /\ pc' = "sleep"
    /\ UNCHANGED << endpoints, results, running, exc, tasks, cycle,
                    stop_requested >>

SpecRounding == InitRounding /\ [][ComputeStats]_vars

\* 100 * up / total lies exactly halfway between two integers.
ExactHalf(up, total) ==
    /\ (200 * up) % total = 0
    /\ ((200 * up) \div total) % 2 = 1

(* C14: the percentage is rounded to the nearest integer, an exact half    *)
(* upwards: where 100 * up_count / total_count is exactly a half (1 UP of  *)
(* 8 is 12.5), the value reported is the next higher integer.              *)
C14_HalfRoundsUp ==
    \A d \in DOMAIN reported :
        LET up == up_count(results[d])
            total == Len(results[d])
        IN  /\ NearestPercent(reported[d], up, total)
            /\ ExactHalf(up, total) =>
                  reported[d] = ((100 * up) \div total) + 1

-----------------------------------------------------------------------------
(* C15: the probes of a cycle are all in flight together, and the history  *)
(* and the statistics change only in a step of main taken when no probe of *)
(* the cycle is in flight: while one is, nothing is appended or computed.  *)
C15_FanOutBarrier ==
    [][ /\ cycle' # cycle =>
              \A i \in DOMAIN tasks' : tasks'[i].state = "inflight"
        /\ (results' # results \/ reported' # reported
              \/ completed' # completed) =>
              /\ \A i \in DOMAIN tasks : tasks[i].state = "returned"
              /\ tasks' = tasks \/ endpoints = << >>
        /\ (\E i \in DOMAIN tasks : tasks[i].state = "inflight") =>
              /\ results' = results
              /\ reported' = reported
              /\ completed' = completed
      ]_vars

\* In the second cycle one probe has returned and the other is in flight;
\* the history holds the first cycle only.
C15_Witness ==
    /\ pc = "gather"
    /\ cycle = 2
    /\ running
    /\ \E i \in DOMAIN tasks : tasks[i].state = "inflight"
    /\ \E i \in DOMAIN tasks : tasks[i].state = "returned"
    /\ TotalLen(results) = Len(endpoints)

(* C16: cycles never overlap.  A cycle starts only when every cycle started *)
(* before it is recorded and reported and none of its probes is in flight;  *)
(* the step that ends a cycle enters the sleep, and the next cycle starts   *)
(* only out of that sleep (or, the loop having left it, out of a new run).  *)
C16_CyclesNeverOverlap ==
    [][ /\ cycle' # cycle =>
              /\ cycle' = cycle + 1
              /\ completed = cycle
              /\ \A i \in DOMAIN tasks : tasks[i].state = "returned"
              /\ cycle > 0 => pc \in {"sleep", "exited"}
        /\ completed' # completed => pc' = "sleep"
        /\ (pc = "sleep" /\ pc' = "gather") => cycle' = cycle + 1
        /\ (pc = "gather" /\ pc' = "gather") => cycle' = cycle
      ]_vars

\* The third cycle has been dispatched out of the sleep after the second:
\* its probe is in flight and the history holds the first two cycles.
C16_Witness ==
    /\ cycle = 3
    /\ completed = 2
    /\ pc = "gather"
    /\ Len(endpoints) >= 1
    /\ \A i \in DOMAIN tasks : tasks[i].state = "inflight"
    /\ TotalLen(results) = 2 * Len(endpoints)

-----------------------------------------------------------------------------
\* The scheduling the event loop gives: a request ends, by its answer or by
\* the client timeout, so a task in flight ends; a finished gather resumes
\* main; asyncio.sleep(15) returns.
Fairness ==
    /\ WF_vars(\E i \in DOMAIN tasks : ProbeResolve(i))
    /\ WF_vars(GatherComplete)
    /\ WF_vars(GatherRaise)
    /\ WF_vars(Wake)

FairSpec == Spec /\ Fairness

(* C17: once stop() has been called while the loop runs, run() eventually   *)
(* returns, unless a SIGINT ends main first.                                *)
C17_StopLeadsToExit ==
    (stop_requested /\ ~running /\ pc \in {"gather", "sleep"})
        ~> (pc = "exited" \/ Interrupted)

(* C18: the history is append-only.  In every step every bucket is still   *)
(* there and is a prefix of what it becomes: no result is removed, moved or *)
(* changed and no domain disappears; so the history of an earlier state is  *)
(* a prefix, bucket by bucket, of the history of every later state.         *)
C18_HistoryAppendOnly ==
    [][ \A d \in DOMAIN results :
            /\ d \in DOMAIN results'
            /\ Len(results'[d]) >= Len(results[d])
            /\ SubSeq(results'[d], 1, Len(results[d])) = results[d]
      ]_vars

\* Three cycles are recorded in one bucket, the first result differing from
\* the last.
C18_Witness ==
    /\ completed = 3
    /\ \E d \in DOMAIN results :
        /\ Len(results[d]) = 3
        /\ results[d][1] # results[d][3]
        /\ is_up(results[d][1])

(* C19: the timestamp of a result is its capture time.  Time counted in     *)
(* cycles (the class is defined at time 0, cycle N starts at time N or      *)
(* later): a result of the current cycle has a timestamp of at least the     *)
(* cycle's number, and two results of one endpoint, which are of different   *)
(* cycles, have the earlier timestamp on the earlier one.                    *)
C19_TimestampIsCaptureTime ==
    /\ \A r \in TaskResults : r.timestamp >= cycle
    /\ \A d \in DOMAIN results :
        \A i, j \in 1..Len(results[d]) :
            ( /\ i < j
              /\ results[d][i].endpoint_name = results[d][j].endpoint_name )
            => results[d][i].timestamp < results[d][j].timestamp

\* The cycles whose probes have all returned a result: every cycle before
\* the current one, and the current one once none of its probes is left.
FanOutsCompleted ==
    IF cycle > 0 /\ \E i \in DOMAIN tasks : tasks[i].state # "returned"
    THEN cycle - 1
    ELSE cycle

(* C20: recording is all-or-nothing with respect to the fan-out: when main  *)
(* has ended, in whatever way, the history holds N results for each cycle   *)
(* whose fan-out completed and nothing else.                                *)
C20_RecordAllOrNothing ==
    pc \in {"exited", "crashed", "interrupted"} =>
        TotalLen(results) = Len(endpoints) * FanOutsCompleted

=============================================================================
